---- MODULE Spec2Model ----
(***************************************************************************)
(* Model of FTPserver.py: the command loop of a minimal FTP server reading *)
(* one command per line from standard input.  Lines and replies are        *)
(* strings; the Python string methods and regular expressions the program  *)
(* uses are operators that compute on the characters of those strings.     *)
(***************************************************************************)
EXTENDS Integers, Sequences, FiniteSets, TLC

\* Largest value retr_counter may reach in the model (the program's counter
\* is unbounded).
MaxTransfers == 2

----------------------------------------------------------------------------
(* Python str and re primitives *)

Ch(s, i) == SubSeq(s, i, i)

LowerLetters == "abcdefghijklmnopqrstuvwxyz"
UpperLetters == "ABCDEFGHIJKLMNOPQRSTUVWXYZ"
DigitChars == "0123456789"

CharsOf(s) == {Ch(s, i) : i \in 1..Len(s)}

\* str.strip(), str.split() and the regex class \s (ASCII part)
Whitespace == {" ", "\t", "\n", "\r", "\f"}

\* regex class \d (ASCII part)
Digit == CharsOf(DigitChars)

\* regex class [A-Z] under re.IGNORECASE
Letter == CharsOf(LowerLetters) \cup CharsOf(UpperLetters)

\* regex class [a-zA-Z0-9_.-]
UserNameChar == Letter \cup Digit \cup {"_", ".", "-"}

\* regex class [^\r\n], as a test on one character
NotCRLF(c) == c \notin {"\r", "\n"}

\* str.upper() on one character
UpperOf == [c \in CharsOf(LowerLetters) |->
               Ch(UpperLetters, CHOOSE i \in 1..26 : Ch(LowerLetters, i) = c)]
UpperCh(c) == IF c \in DOMAIN UpperOf THEN UpperOf[c] ELSE c

RECURSIVE upper(_)
upper(s) == IF s = "" THEN "" ELSE UpperCh(Head(s)) \o upper(Tail(s))

startswith(s, p) == Len(s) >= Len(p) /\ SubSeq(s, 1, Len(p)) = p

RECURSIVE lstrip(_)
lstrip(s) == IF s # "" /\ Head(s) \in Whitespace THEN lstrip(Tail(s)) ELSE s

RECURSIVE rstrip(_)
rstrip(s) ==
    IF s # "" /\ Ch(s, Len(s)) \in Whitespace
    THEN rstrip(SubSeq(s, 1, Len(s) - 1))
    ELSE s

strip(s) == rstrip(lstrip(s))

\* length of the longest prefix of s without whitespace
RECURSIVE TokenLen(_)
TokenLen(s) ==
    IF s = "" \/ Head(s) \in Whitespace THEN 0 ELSE 1 + TokenLen(Tail(s))

\* str.split() with no separator: the whitespace-separated words
RECURSIVE split(_)
split(s) ==
    LET t == lstrip(s)
        n == TokenLen(t)
    IN  IF t = "" THEN << >>
        ELSE << SubSeq(t, 1, n) >> \o split(SubSeq(t, n + 1, Len(t)))

\* the Python test `sub in s`
Contains(s, sub) ==
    \E i \in 1..(Len(s) - Len(sub) + 1) : SubSeq(s, i, i + Len(sub) - 1) = sub

\* int() of a string of decimal digits
DigitValue == [c \in CharsOf(DigitChars) |->
                  (CHOOSE i \in 1..10 : Ch(DigitChars, i) = c) - 1]
RECURSIVE int(_)
int(s) ==
    IF s = "" THEN 0
    ELSE 10 * int(SubSeq(s, 1, Len(s) - 1))
         + DigitValue[Ch(s, Len(s))]

\* str.join on a sequence of strings
RECURSIVE join(_, _)
join(sep, parts) ==
    IF Len(parts) = 0 THEN ""
    ELSE IF Len(parts) = 1 THEN parts[1]
    ELSE parts[1] \o sep \o join(sep, Tail(parts))

\* the pieces of s between occurrences of the one-character separator
RECURSIVE Fields(_, _)
Fields(s, sep) ==
    IF \E i \in 1..Len(s) : Ch(s, i) = sep
    THEN LET i == CHOOSE k \in 1..Len(s) :
                     Ch(s, k) = sep /\ \A j \in 1..(k - 1) : Ch(s, j) # sep
         IN  << SubSeq(s, 1, i - 1) >> \o Fields(SubSeq(s, i + 1, Len(s)), sep)
    ELSE << s >>

AllIn(s, i, j, S) == \A k \in i..j : Ch(s, k) \in S

\* The tail `\r\n$` of every pattern: the text before it ends at position e.
\* `$` matches at the end of the string and before a final newline.
LineEnd(data, e) ==
    /\ e >= 0
    /\ e + 2 <= Len(data)
    /\ SubSeq(data, e + 1, e + 2) = "\r\n"
    /\ \/ Len(data) = e + 2
       \/ Len(data) = e + 3 /\ Ch(data, e + 3) = "\n"

\* The head `^(VERB)\s+` of every pattern, case-insensitively: the parameter
\* text starts at position b.
VerbThenSpaces(data, verb, b) ==
    /\ b >= 6
    /\ b <= Len(data)
    /\ upper(SubSeq(data, 1, 4)) = verb
    /\ AllIn(data, 5, b - 1, Whitespace)

UserNameParam(t) == t # "" /\ AllIn(t, 1, Len(t), UserNameChar)
AnyParam(t) == t # "" /\ \A k \in 1..Len(t) : NotCRLF(Ch(t, k))
TypeParam(t) == Len(t) = 1 /\ t \in Letter
PortParam(t) ==
    LET f == Fields(t, ",")
    IN  /\ Len(f) = 6
        /\ \A i \in 1..6 : Len(f[i]) \in 1..3 /\ AllIn(f[i], 1, Len(f[i]), Digit)

\* The parameter part of the pattern of each verb (lines 17, 40, 68, 93, 120)
PatternParam(verb, t) ==
    CASE verb = "USER" -> UserNameParam(t)
      [] verb = "PASS" -> AnyParam(t)
      [] verb = "PORT" -> PortParam(t)
      [] verb = "RETR" -> AnyParam(t)
      [] verb = "TYPE" -> TypeParam(t)

\* Spans <<b, e>> of the parameter text in the matches of the pattern
\* ^(VERB)\s+(param)\r\n$ of the verb.
ParamSpans(data, verb) ==
    {be \in {b \in 6..Len(data) : VerbThenSpaces(data, verb, b)}
            \X {e \in 6..Len(data) : LineEnd(data, e)} :
        /\ be[1] <= be[2]
        /\ PatternParam(verb, SubSeq(data, be[1], be[2]))}

\* match.group(2) of the match the regex engine returns: \s+ is greedy, so
\* the parameter starts as late as possible, and then is as long as possible.
Group2(data, verb) ==
    LET spans == ParamSpans(data, verb)
        b == CHOOSE x \in {be[1] : be \in spans} :
                 \A y \in {be[1] : be \in spans} : y <= x
        e == CHOOSE x \in {be[2] : be \in {z \in spans : z[1] = b}} :
                 \A y \in {be[2] : be \in {z \in spans : z[1] = b}} : y <= x
    IN  SubSeq(data, b, e)

----------------------------------------------------------------------------
(* Replies *)

R331 == "331 Guest access OK, send password.\r\n"
R501 == "501 Syntax error in parameter.\r\n"
R503 == "503 Bad sequence of commands.\r\n"
R230 == "230 Guest login OK.\r\n"
R215 == "215 UNIX Type: L8.\r\n"
R200Port == "200 Port command successful.\r\n"
R503Retr == "503 Bad sequence of commands. Use PORT before RETR.\r\n"
R150R250 == "150 File status okay.\r\n250 Requested file action completed.\r\n"
R550 == "550 Requested action not taken. File unavailable.\r\n"
R200Type == "200 Type set to I.\r\n"
R200Noop == "200 Command okay.\r\n"
R200Quit == "200 Command OK.\r\n"
R500 == "500 Syntax error, command unrecognized.\r\n"

\* the three-digit code that opens a reply
ReplyCode(r) == SubSeq(r, 1, 3)

----------------------------------------------------------------------------
(* Command parsers and handlers *)

parse_ftp_input_user_command(ftp_input_data) ==
    IF ParamSpans(ftp_input_data, "USER") # {}
    THEN R331
    ELSE R501

\* A PASS handler without the sequence check
handle_pass_command_unchecked(ftp_input_data, user_authenticated) ==
    IF ParamSpans(ftp_input_data, "PASS") # {} THEN R230 ELSE R501

handle_pass_command(ftp_input_data, user_authenticated) ==
    IF ~user_authenticated THEN R503
    ELSE IF ParamSpans(ftp_input_data, "PASS") # {} THEN R230
    ELSE R501

handle_syst_command == R215

\* The value None of the address and port of a rejected PORT
None == "None"

\* A PORT handler that takes the low byte of the port first
handle_port_command_swapped(ftp_input_data) ==
    IF ParamSpans(ftp_input_data, "PORT") # {}
    THEN LET g == Fields(Group2(ftp_input_data, "PORT"), ",")
         IN  [ip_address |-> join(".", SubSeq(g, 1, 4)),
              port       |-> int(g[6]) * 256 + int(g[5]),
              response   |-> R200Port]
    ELSE [ip_address |-> None, port |-> None, response |-> R501]

handle_port_command(ftp_input_data) ==
    IF ParamSpans(ftp_input_data, "PORT") # {}
    THEN LET g == Fields(Group2(ftp_input_data, "PORT"), ",")
         IN  [ip_address |-> join(".", SubSeq(g, 1, 4)),
              port       |-> int(g[5]) * 256 + int(g[6]),
              response   |-> R200Port]
    ELSE [ip_address |-> None, port |-> None, response |-> R501]

----------------------------------------------------------------------------
(* The file system the server runs in: a function from the paths that exist *)
(* to what is there: a readable file, a file the server may not read, or a  *)
(* directory.                                                               *)

exists(fs, path) == path \in DOMAIN fs

\* os.path.join of a directory and a name
path_join(dir, name) == dir \o "/" \o name

\* shutil.copy(src, dst) raises when src is a directory or unreadable, when
\* dst is src, or when the directory of dst is not a directory.
copy_raises(fs, src, dst_dir, dst) ==
    \/ fs[src] # "file"
    \/ src = dst
    \/ fs[dst_dir] # "dir"

\* handle_retr_command past its check of port_set
retr_with_port(ftp_input_data, retr_counter, fs) ==
    IF ParamSpans(ftp_input_data, "RETR") # {}
    THEN LET file_path == Group2(ftp_input_data, "RETR")
             dest_dir  == "retr_files"
             fs1       == IF exists(fs, dest_dir) THEN fs
                          ELSE (dest_dir :> "dir") @@ fs
             dest_file == path_join(dest_dir, "file" \o ToString(retr_counter + 1))
         IN  IF exists(fs, file_path)
             THEN IF copy_raises(fs1, file_path, dest_dir, dest_file)
                  THEN [retr_counter |-> retr_counter + 1, response |-> "",
                        fs |-> fs1, raised |-> TRUE]
                  ELSE [retr_counter |-> retr_counter + 1,
                        response |-> R150R250,
                        fs |-> (dest_file :> "file") @@ fs1, raised |-> FALSE]
             ELSE [retr_counter |-> retr_counter, response |-> R550,
                   fs |-> fs, raised |-> FALSE]
    ELSE [retr_counter |-> retr_counter, response |-> R501,
          fs |-> fs, raised |-> FALSE]

\* A RETR handler that does not look at port_set
handle_retr_command_unchecked(ftp_input_data, retr_counter, port_set, fs) ==
    retr_with_port(ftp_input_data, retr_counter, fs)

handle_retr_command(ftp_input_data, retr_counter, port_set, fs) ==
    IF ~port_set
    THEN [retr_counter |-> retr_counter, response |-> R503Retr,
          fs |-> fs, raised |-> FALSE]
    ELSE retr_with_port(ftp_input_data, retr_counter, fs)

handle_type_command(ftp_input_data) ==
    IF /\ ParamSpans(ftp_input_data, "TYPE") # {}
       /\ Group2(ftp_input_data, "TYPE") = "I"
    THEN R200Type
    ELSE R501

handle_noop_command == R200Noop

handle_quit_command == R200Quit

----------------------------------------------------------------------------
(* handle_ftp_command: one operator per branch of the dispatch.  Each gives *)
(* the returned tuple, the line echoed to standard output, the file system  *)
(* afterwards and whether an exception was raised.                          *)

Outcome(user_authenticated, retr_counter, port_set, response, echo, fs) ==
    [user_authenticated |-> user_authenticated, retr_counter |-> retr_counter,
     port_set |-> port_set, response |-> response, echo |-> echo,
     fs |-> fs, raised |-> FALSE]

user_branch(command, user_authenticated, retr_counter, port_set, fs) ==
    LET parts == split(strip(command))
    IN  IF Len(parts) < 2
        THEN Outcome(user_authenticated, retr_counter, port_set, R501,
                     "> USER\n", fs)
        ELSE LET response ==
                     parse_ftp_input_user_command(strip(command) \o "\r\n")
             IN  Outcome(IF Contains(response, "331") THEN TRUE
                         ELSE user_authenticated,
                         retr_counter, port_set, response,
                         "> USER " \o parts[2] \o "\n", fs)

pass_branch(command, user_authenticated, retr_counter, port_set, fs) ==
    LET parts == split(strip(command))
    IN  IF Len(parts) < 2
        THEN Outcome(user_authenticated, retr_counter, port_set, R501,
                     "> PASS\n", fs)
        ELSE Outcome(user_authenticated, retr_counter, port_set,
                     handle_pass_command(strip(command) \o "\r\n",
                                         user_authenticated),
                     "> PASS " \o parts[2] \o "\n", fs)

\* A SYST branch that forgets the login
syst_branch_logout(command, user_authenticated, retr_counter, port_set, fs) ==
    Outcome(FALSE, retr_counter, port_set, handle_syst_command,
            "> SYST\n", fs)

syst_branch(command, user_authenticated, retr_counter, port_set, fs) ==
    Outcome(user_authenticated, retr_counter, port_set, handle_syst_command,
            "> SYST\n", fs)

type_branch(command, user_authenticated, retr_counter, port_set, fs) ==
    LET parts == split(strip(command))
    IN  IF Len(parts) < 2
        THEN Outcome(user_authenticated, retr_counter, port_set, R501,
                     "> TYPE\n", fs)
        ELSE Outcome(user_authenticated, retr_counter, port_set,
                     handle_type_command(strip(command) \o "\r\n"),
                     "> TYPE " \o parts[2] \o "\n", fs)

\* A PORT branch in which a rejected PORT drops the endpoint
port_branch_wipes(command, user_authenticated, retr_counter, port_set, fs) ==
    LET parts == split(strip(command))
    IN  IF Len(parts) < 2
        THEN Outcome(user_authenticated, retr_counter, FALSE, R501,
                     "> PORT\n", fs)
        ELSE LET r == handle_port_command(strip(command) \o "\r\n")
             IN  Outcome(user_authenticated, retr_counter,
                         Contains(r.response, "200"),
                         r.response, "> PORT " \o parts[2] \o "\n", fs)

port_branch(command, user_authenticated, retr_counter, port_set, fs) ==
    LET parts == split(strip(command))
    IN  IF Len(parts) < 2
        THEN Outcome(user_authenticated, retr_counter, port_set, R501,
                     "> PORT\n", fs)
        ELSE LET r == handle_port_command(strip(command) \o "\r\n")
             IN  Outcome(user_authenticated, retr_counter,
                         IF Contains(r.response, "200") THEN TRUE
                         ELSE port_set,
                         r.response, "> PORT " \o parts[2] \o "\n", fs)

\* A RETR branch that returns the counter it was given
retr_branch_stale(command, user_authenticated, retr_counter, port_set, fs) ==
    LET parts == split(strip(command))
    IN  IF Len(parts) < 2
        THEN Outcome(user_authenticated, retr_counter, port_set, R501,
                     "> RETR\n", fs)
        ELSE LET r == handle_retr_command(strip(command) \o "\r\n",
                                          retr_counter, port_set, fs)
             IN  [user_authenticated |-> user_authenticated,
                  retr_counter |-> retr_counter, port_set |-> port_set,
                  response |-> r.response,
                  echo |-> "> RETR " \o parts[2] \o "\n",
                  fs |-> r.fs, raised |-> r.raised]

retr_branch(command, user_authenticated, retr_counter, port_set, fs) ==
    LET parts == split(strip(command))
    IN  IF Len(parts) < 2
        THEN Outcome(user_authenticated, retr_counter, port_set, R501,
                     "> RETR\n", fs)
        ELSE LET r == handle_retr_command(strip(command) \o "\r\n",
                                          retr_counter, port_set, fs)
             IN  [user_authenticated |-> user_authenticated,
                  retr_counter |-> r.retr_counter, port_set |-> port_set,
                  response |-> r.response,
                  echo |-> "> RETR " \o parts[2] \o "\n",
                  fs |-> r.fs, raised |-> r.raised]

quit_branch(command, user_authenticated, retr_counter, port_set, fs) ==
    Outcome(user_authenticated, retr_counter, port_set, handle_quit_command,
            "> QUIT\n", fs)

noop_branch(command, user_authenticated, retr_counter, port_set, fs) ==
    Outcome(user_authenticated, retr_counter, port_set, handle_noop_command,
            "> NOOP\n", fs)

else_branch(command, user_authenticated, retr_counter, port_set, fs) ==
    Outcome(user_authenticated, retr_counter, port_set, R500,
            "> " \o upper(command) \o "\n", fs)

\* A dispatch on the whole first word of the command
Branch_by_word(command) ==
    LET parts == split(command)
        word == IF parts = << >> THEN "" ELSE upper(parts[1])
    IN  IF word \in {"USER", "PASS", "SYST", "TYPE", "PORT", "RETR", "QUIT",
                     "NOOP"}
        THEN word ELSE "ELSE"

\* The branch of the if/elif chain that a command takes
Branch(command) ==
    LET command_upper == upper(command)
    IN  IF startswith(command_upper, "USER") THEN "USER"
        ELSE IF startswith(command_upper, "PASS") THEN "PASS"
        ELSE IF startswith(command_upper, "SYST") THEN "SYST"
        ELSE IF startswith(command_upper, "TYPE") THEN "TYPE"
        ELSE IF startswith(command_upper, "PORT") THEN "PORT"
        ELSE IF startswith(command_upper, "RETR") THEN "RETR"
        ELSE IF startswith(command_upper, "QUIT") THEN "QUIT"
        ELSE IF startswith(command_upper, "NOOP") THEN "NOOP"
        ELSE "ELSE"

handle_ftp_command(command, user_authenticated, retr_counter, port_set, fs) ==
  LET branch == Branch(command) IN
    CASE branch = "USER" ->
            user_branch(command, user_authenticated, retr_counter, port_set, fs)
      [] branch = "PASS" ->
            pass_branch(command, user_authenticated, retr_counter, port_set, fs)
      [] branch = "SYST" ->
            syst_branch(command, user_authenticated, retr_counter, port_set, fs)
      [] branch = "TYPE" ->
            type_branch(command, user_authenticated, retr_counter, port_set, fs)
      [] branch = "PORT" ->
            port_branch(command, user_authenticated, retr_counter, port_set, fs)
      [] branch = "RETR" ->
            retr_branch(command, user_authenticated, retr_counter, port_set, fs)
      [] branch = "QUIT" ->
            quit_branch(command, user_authenticated, retr_counter, port_set, fs)
      [] branch = "NOOP" ->
            noop_branch(command, user_authenticated, retr_counter, port_set, fs)
      [] OTHER ->
            else_branch(command, user_authenticated, retr_counter, port_set, fs)

----------------------------------------------------------------------------
(* The lines typed at the prompt, as input() returns them *)

UserLines == {"USER a", "user a", "USER  a.b-c_1", "USER\ta", " USER a ",
              "USER", "USER a b", "USERX a", "USER a,b", "USERa"}
PassLines == {"PASS x", "pass x", "PASS x y", "PASS", "PASSX x", "PASSX",
              "PASS  !"}
SystLines == {"SYST", "syst", "SYST x", "SYSTX"}
TypeLines == {"TYPE I", "TYPE A", "TYPE i", "TYPE a", "type I", "TYPE",
              "TYPE X", "TYPE II", "TYPEI"}
PortLines == {"PORT 127,0,0,1,39,16", "PORT 256,0,0,1,0,1",
              "port 1,2,3,4,5,999", "PORT 1,2,3,4,5", "PORT 1,2,3,4,5,6,7",
              "PORT 1000,0,0,1,0,1", "PORT a,b,c,d,e,f", "PORT 1,2,3,4,5,6 x",
              "PORT", "PORTX 1,2,3,4,5,6", "PORT 255,255,255,255,255,255",
              "port 0,0,0,0,0,0", "PORT 10,001,2,3,1,0", "PORT  9,8,7,6,0,255"}
RetrLines == {"RETR f", "retr f", "RETR nofile", "RETR my file", "RETR d",
              "RETR secret", "RETR retr_files/file1", "RETR", "RETRX f",
              "RETRf"}
QuitLines == {"QUIT", "quit", "QUIT now", "QUITX"}
NoopLines == {"NOOP", "noop", "NOOP x", "NOOPX"}
OtherLines == {"FOO", "", "   ", "USE", "US ER a", "XUSER a", "HELP me"}

Lines == UserLines \cup PassLines \cup SystLines \cup TypeLines
         \cup PortLines \cup RetrLines \cup QuitLines \cup NoopLines
         \cup OtherLines

\* The file systems the server may be started in: a readable file f, a
\* directory d and an unreadable file secret, and then either no retr_files,
\* or the retr_files directory a previous run left behind, or a plain file
\* of that name.
BaseFiles == [p \in {"f", "d", "secret"} |->
                 IF p = "f" THEN "file" ELSE IF p = "d" THEN "dir" ELSE "noread"]
InitialFileSystems ==
    {BaseFiles,
     ("retr_files" :> "dir") @@ ("retr_files/file1" :> "file") @@ BaseFiles,
     ("retr_files" :> "file") @@ BaseFiles}

----------------------------------------------------------------------------
(* State *)

VARIABLES
    user_authenticated,  \* main loop: a valid USER has been received
    retr_counter,        \* main loop: number of files copied to retr_files
    port_set,            \* main loop: a valid PORT has been received
    command,             \* main loop: the stripped line read last
    response,            \* main loop: the reply written last
    echo,                \* the "> ..." line the handler wrote last
    fs,                  \* the file system
    pc,                  \* "prompt", "done" after QUIT, "raised" after an
                         \* uncaught exception, "eof" when input ended
    login_reply          \* history: the code of the latest reply among 331
                         \* and 230 written so far, "" when there is none

vars == << user_authenticated, retr_counter, port_set, command, response,
           echo, fs, pc, login_reply >>

Init ==
    /\ user_authenticated = FALSE
    /\ retr_counter = 0
    /\ port_set = FALSE
    /\ command = ""
    /\ response = ""
    /\ echo = ""
    /\ fs \in InitialFileSystems
    /\ pc = "prompt"
    /\ login_reply = ""

\* The lines that take each branch of the dispatch once stripped
Branches == {"USER", "PASS", "SYST", "TYPE", "PORT", "RETR", "QUIT", "NOOP",
             "ELSE"}
LinesOf == [b \in Branches |-> {line \in Lines : Branch(strip(line)) = b}]

\* One iteration of the main loop on the line that input() returns, where r
\* is what handle_ftp_command returns for it
MainLoop(line, r) ==
    /\ pc = "prompt"
    /\ r.retr_counter <= MaxTransfers
    /\ command' = strip(line)
    /\ echo' = r.echo
    /\ fs' = r.fs
    /\ IF r.raised
       THEN /\ pc' = "raised"
            /\ UNCHANGED << user_authenticated, retr_counter, port_set,
                            response, login_reply >>
       ELSE /\ user_authenticated' = r.user_authenticated
            /\ retr_counter' = r.retr_counter
            /\ port_set' = r.port_set
            /\ response' = r.response
            /\ login_reply' =
                   IF ReplyCode(r.response) \in {"331", "230"}
                   THEN ReplyCode(r.response)
                   ELSE login_reply
            /\ pc' = IF startswith(upper(strip(line)), "QUIT")
                     THEN "done" ELSE "prompt"

\* The main loop on a line that takes each branch of handle_ftp_command
DoUSER ==
    \E line \in LinesOf["USER"] :
        MainLoop(line, user_branch(strip(line), user_authenticated,
                                   retr_counter, port_set, fs))
DoPASS ==
    \E line \in LinesOf["PASS"] :
        MainLoop(line, pass_branch(strip(line), user_authenticated,
                                   retr_counter, port_set, fs))
DoSYST ==
    \E line \in LinesOf["SYST"] :
        MainLoop(line, syst_branch(strip(line), user_authenticated,
                                   retr_counter, port_set, fs))
DoTYPE ==
    \E line \in LinesOf["TYPE"] :
        MainLoop(line, type_branch(strip(line), user_authenticated,
                                   retr_counter, port_set, fs))
DoPORT ==
    \E line \in LinesOf["PORT"] :
        MainLoop(line, port_branch(strip(line), user_authenticated,
                                   retr_counter, port_set, fs))
DoRETR ==
    \E line \in LinesOf["RETR"] :
        MainLoop(line, retr_branch(strip(line), user_authenticated,
                                   retr_counter, port_set, fs))
DoQUIT ==
    \E line \in LinesOf["QUIT"] :
        MainLoop(line, quit_branch(strip(line), user_authenticated,
                                   retr_counter, port_set, fs))
DoNOOP ==
    \E line \in LinesOf["NOOP"] :
        MainLoop(line, noop_branch(strip(line), user_authenticated,
                                   retr_counter, port_set, fs))
DoOther ==
    \E line \in LinesOf["ELSE"] :
        MainLoop(line, else_branch(strip(line), user_authenticated,
                                   retr_counter, port_set, fs))

\* input() raises EOFError when standard input is exhausted
EndOfInput ==
    /\ pc = "prompt"
    /\ pc' = "eof"
    /\ UNCHANGED << user_authenticated, retr_counter, port_set, command,
                    response, echo, fs, login_reply >>

Next ==
    \/ DoUSER
    \/ DoPASS
    \/ DoSYST
    \/ DoTYPE
    \/ DoPORT
    \/ DoRETR
    \/ DoQUIT
    \/ DoNOOP
    \/ DoOther
    \/ EndOfInput

Spec == Init /\ [][Next]_vars

TypeOK ==
    /\ user_authenticated \in BOOLEAN
    /\ port_set \in BOOLEAN
    /\ retr_counter \in 0..MaxTransfers
    /\ pc \in {"prompt", "done", "raised", "eof"}
    /\ login_reply \in {"", "331", "230"}

----------------------------------------------------------------------------
(* Vocabulary of the properties *)

\* The session state the handler receives and returns
session == << user_authenticated, retr_counter, port_set >>

\* This step is an iteration of the main loop that read a line
LineRead == pc = "prompt" /\ pc' # "eof"

\* This step read a line and wrote its reply
Answered == pc = "prompt" /\ pc' \in {"prompt", "done"}

\* The login handshake is complete: a 230 was written, and no 331 since
authenticated == login_reply = "230"

\* A USER was accepted and no PASS has been accepted since
awaiting_password == login_reply = "331"

\* The first word of the command is the verb, in any case
HasVerb(cmd, verb) == split(cmd) # << >> /\ upper(split(cmd)[1]) = verb

ValidUSER(cmd) ==
    ParamSpans(cmd \o "\r\n", "USER") # {}

WellFormedPASS(cmd) ==
    ParamSpans(cmd \o "\r\n", "PASS") # {}

WellFormedRETR(cmd) ==
    ParamSpans(cmd \o "\r\n", "RETR") # {}

PathOf(cmd) == Group2(cmd \o "\r\n", "RETR")

\* PORT with six comma-separated decimal fields, one of them above 255
PortFieldTooLarge(cmd) ==
    /\ HasVerb(cmd, "PORT")
    /\ Len(split(cmd)) = 2
    /\ LET f == Fields(split(cmd)[2], ",")
       IN  /\ Len(f) = 6
           /\ \A i \in 1..6 : f[i] # "" /\ AllIn(f[i], 1, Len(f[i]), Digit)
           /\ \E i \in 1..6 : int(f[i]) > 255

----------------------------------------------------------------------------
(* Properties *)

\* C1: every syntactically valid USER, from any state, is answered 331 and
\* leaves the session awaiting a password, not authenticated, and with no
\* data endpoint.
C1_UserRestartsHandshake ==
    [][(LineRead /\ ValidUSER(command'))
        => /\ ReplyCode(response') = "331"
           /\ awaiting_password'
           /\ ~authenticated'
           /\ ~port_set']_vars

\* C2: while no valid USER has been accepted, every PASS line, whatever its
\* parameter, is answered 503 and the session state is unchanged.
C2_PassBeforeUserIs503 ==
    [][(LineRead /\ ~user_authenticated /\ HasVerb(command', "PASS"))
        => /\ ReplyCode(response') = "503"
           /\ UNCHANGED session]_vars

\* C3: a PASS is answered 230 only while the session awaits a password;
\* once a PASS was accepted, a further PASS without a new valid USER is
\* answered 503 and the session state is unchanged.
C3_PassOnlyWhileAwaiting ==
    [][/\ (LineRead /\ ReplyCode(response') = "230" /\ HasVerb(command', "PASS"))
           => awaiting_password
       /\ (LineRead /\ authenticated /\ WellFormedPASS(command'))
           => (ReplyCode(response') = "503" /\ UNCHANGED session)]_vars

\* C4: a RETR answered 150 then 250 clears the data endpoint, and a RETR
\* that directly follows it is answered 503.
C4_EndpointUsedOnce ==
    [][/\ (Answered /\ HasVerb(command', "RETR") /\ response' = R150R250)
           => ~port_set'
       /\ (LineRead /\ HasVerb(command, "RETR") /\ response = R150R250
             /\ WellFormedRETR(command'))
           => ReplyCode(response') = "503"]_vars

\* C5: a well-formed RETR of a path that does not exist, with an endpoint
\* set, is answered 550, leaves retr_counter unchanged and clears the
\* endpoint.
C5_MissingFileClearsEndpoint ==
    [][(LineRead /\ port_set /\ WellFormedRETR(command')
          /\ ~exists(fs, PathOf(command')))
        => /\ ReplyCode(response') = "550"
           /\ retr_counter' = retr_counter
           /\ ~port_set']_vars

\* C6: a data endpoint is set only in a session whose login handshake
\* (valid USER, then valid PASS) is complete.
C6_EndpointOnlyWhenAuthenticated == port_set => authenticated

\* C7: TYPE and RETR in a session that is not authenticated are answered
\* 530 and leave the session state unchanged.
C7_TypeRetrNeedLogin ==
    [][(LineRead /\ ~authenticated
          /\ (HasVerb(command', "TYPE") \/ HasVerb(command', "RETR")))
        => /\ pc' = "prompt"
           /\ ReplyCode(response') = "530"
           /\ UNCHANGED session]_vars

\* C8: a PORT with six decimal fields of which one is above 255 is
\* answered 501 and leaves the data endpoint as it was.
C8_PortOctetRange ==
    [][(LineRead /\ PortFieldTooLarge(command'))
        => /\ ReplyCode(response') = "501"
           /\ port_set' = port_set]_vars

\* C9: in an authenticated session in which no PORT has succeeded, every
\* well-formed RETR, of an existing file or not, is answered 503, and the
\* counter, the rest of the session state and the files are unchanged.
C9_RetrBeforePortIs503 ==
    [][(LineRead /\ authenticated /\ ~port_set /\ WellFormedRETR(command'))
        => /\ pc' = "prompt"
           /\ ReplyCode(response') = "503"
           /\ UNCHANGED << session, fs, login_reply >>]_vars

\* C9 witness: after a login and with no PORT, a RETR of the existing file f
\* has been answered 503.
C9_Witness ==
    /\ authenticated
    /\ ~port_set
    /\ WellFormedRETR(command)
    /\ PathOf(command) = "f"
    /\ exists(fs, "f")
    /\ ReplyCode(response) = "503"

\* C10: SYST and NOOP reply 215 and 200 in every state and change neither
\* the session state nor the files, so the replies to the other commands
\* and the final state do not depend on them.
C10_SystNoopPure ==
    [][(LineRead /\ Branch(command') \in {"SYST", "NOOP"})
        => /\ pc' = "prompt"
           /\ response' = IF Branch(command') = "SYST" THEN R215 ELSE R200Noop
           /\ UNCHANGED << session, fs, login_reply >>]_vars

\* C10 witness: a SYST has been answered in a session that is logged in
\* and has an endpoint and a completed transfer.
C10_Witness ==
    /\ command = "SYST"
    /\ response = R215
    /\ user_authenticated
    /\ port_set
    /\ retr_counter > 0

----------------------------------------------------------------------------
(* Vocabulary of the properties, continued *)

Verbs == {"USER", "PASS", "TYPE", "PORT", "RETR", "SYST", "NOOP", "QUIT"}

\* The first word of the command, in upper case; "" for an empty command
VerbOf(cmd) == IF split(cmd) = << >> THEN "" ELSE upper(split(cmd)[1])

\* The first four characters of the command (fewer if it is shorter), in
\* upper case
Prefix4(cmd) ==
    upper(SubSeq(cmd, 1, IF Len(cmd) < 4 THEN Len(cmd) ELSE 4))

\* The replies of the catalogue, a completed RETR being the pair 150, 250
ReplyCatalogue ==
    {R331, R501, R503, R230, R215, R200Port, R503Retr, R150R250, R550,
     R200Type, R200Noop, R200Quit, R500}

\* PORT followed by six comma-separated decimal numbers, each in 0..255
PortOctetsInRange(cmd) ==
    /\ HasVerb(cmd, "PORT")
    /\ Len(split(cmd)) = 2
    /\ LET f == Fields(split(cmd)[2], ",")
       IN  /\ Len(f) = 6
           /\ \A i \in 1..6 : f[i] # "" /\ AllIn(f[i], 1, Len(f[i]), Digit)
           /\ \A i \in 1..6 : int(f[i]) \in 0..255

\* The six numbers of such a command, as written
OctetsOf(cmd) == Fields(split(cmd)[2], ",")

\* TYPE followed by one of the letters A and I, in either case
TypeAorI(cmd) ==
    /\ HasVerb(cmd, "TYPE")
    /\ Len(split(cmd)) = 2
    /\ upper(split(cmd)[2]) \in {"A", "I"}

----------------------------------------------------------------------------
(* Properties, continued *)

\* C11: a line whose verb is none of the eight verbs is answered 500 in
\* every state, and the login state, the data endpoint and the counter are
\* unchanged.
C11_UnknownVerbIs500 ==
    [][(LineRead /\ VerbOf(command') \notin Verbs)
        => /\ ReplyCode(response') = "500"
           /\ UNCHANGED << session, login_reply >>]_vars

\* C12: a line answered 501 leaves every session field unchanged: the login
\* state, the data endpoint and the counter.
C12_ParameterErrorKeepsState ==
    [][(Answered /\ ReplyCode(response') = "501")
        => /\ pc' = "prompt"
           /\ UNCHANGED << session, fs, login_reply >>]_vars

\* C12 witness: a malformed PORT has been answered 501 in a logged-in
\* session whose endpoint is set.
C12_Witness ==
    /\ command = "PORT 1,2,3,4,5"
    /\ response = R501
    /\ authenticated
    /\ port_set

\* C13: every line, in every state, is answered with one reply of the
\* catalogue and raises nothing, and the session goes on unless the line
\* began with QUIT.
C13_NoCommandIsFatal ==
    [][LineRead
        => /\ pc' # "raised"
           /\ response' \in ReplyCatalogue
           /\ (pc' = "prompt" \/ Prefix4(command') = "QUIT")]_vars

\* C14: a QUIT is answered 221 in every state and ends the session: no
\* line is read after it.
C14_QuitIs221 ==
    [][/\ (LineRead /\ command' \in {"QUIT", "quit"})
           => (ReplyCode(response') = "221" /\ pc' = "done")
       /\ pc = "done" => UNCHANGED vars]_vars

\* C15: SYST, NOOP and QUIT followed by parameter text are answered with a
\* parameter or syntax error, and such a QUIT does not end the session.
C15_NoParameterVerbsAreStrict ==
    [][(LineRead /\ VerbOf(command') \in {"SYST", "NOOP", "QUIT"}
          /\ Len(split(command')) > 1)
        => /\ ReplyCode(response') \in {"500", "501"}
           /\ pc' = "prompt"]_vars

\* C16: a PORT with six decimal octets in 0..255 decodes to the dotted join
\* of the first four and to the port p1*256+p2, within 0..65535, is
\* answered 200 and sets the endpoint.
C16_PortDecoding ==
    [][(LineRead /\ PortOctetsInRange(command'))
        => LET r == handle_port_command(command' \o "\r\n")
               o == OctetsOf(command')
           IN  /\ r.ip_address =
                      o[1] \o "." \o o[2] \o "." \o o[3] \o "." \o o[4]
               /\ r.port = int(o[5]) * 256 + int(o[6])
               /\ r.port \in 0..65535
               /\ response' = r.response
               /\ ReplyCode(response') = "200"
               /\ port_set']_vars

\* C16 witness: the PORT with all octets 255 has been answered 200, its
\* port decoding to 65535.
C16_Witness ==
    /\ command = "PORT 255,255,255,255,255,255"
    /\ handle_port_command(command \o "\r\n").port = 65535
    /\ response = R200Port
    /\ port_set

\* C17: in an authenticated session TYPE with A or I, in either case, is
\* answered "200 Type set to X." with X the letter in upper case, any other
\* TYPE is answered 501, and no TYPE changes the session state.
C17_TypeAcceptsAandI ==
    [][(LineRead /\ authenticated /\ HasVerb(command', "TYPE"))
        => /\ response' =
                  IF TypeAorI(command')
                  THEN "200 Type set to " \o upper(split(command')[2])
                       \o ".\r\n"
                  ELSE R501
           /\ UNCHANGED << session, login_reply >>]_vars

\* C18: a 230 is written only after a 331 was written earlier in the
\* session, and the session is authenticated only when a valid USER has
\* been received.
C18_LoginNeedsUser ==
    [][(Answered /\ ReplyCode(response') = "230")
        => (login_reply # "" /\ user_authenticated)]_vars

\* C18 witness: a PASS has been answered 230.
C18_Witness ==
    /\ HasVerb(command, "PASS")
    /\ response = R230
    /\ authenticated

\* C19: retr_counter starts at 0, grows by one with each RETR answered
\* 150 then 250, and is unchanged by every other step.
C19_CounterCountsTransfers ==
    /\ retr_counter = 0
    /\ [][retr_counter' =
              IF Answered /\ response' = R150R250 /\ HasVerb(command', "RETR")
              THEN retr_counter + 1
              ELSE retr_counter]_vars

\* C19 witness: two transfers have been completed and a RETR of a missing
\* file has then been answered 550.
C19_Witness ==
    /\ retr_counter = 2
    /\ response = R550
    /\ exists(fs, "retr_files/file2")

\* C20: the branch is chosen by the first four characters of the stripped
\* line, in any case: the reply is 500 exactly when they are none of the
\* verbs, a line that starts with a verb is echoed as that verb, and a line
\* that starts with QUIT ends the session.
C20_DispatchByPrefix ==
    [][LineRead
        => /\ Prefix4(command') \notin Verbs
               => (Answered /\ ReplyCode(response') = "500")
           /\ Prefix4(command') \in Verbs
               => /\ Answered => ReplyCode(response') # "500"
                  /\ startswith(echo', "> " \o Prefix4(command'))
           /\ Prefix4(command') = "QUIT" => pc' = "done"]_vars

\* C20 witness: NOOPX has been answered as a NOOP.
C20_Witness ==
    /\ command = "NOOPX"
    /\ echo = "> NOOP\n"
    /\ response = R200Noop

====
